---------------------------- MODULE Spec2Model ----------------------------
(***************************************************************************)
(* The nearest-palette-colour engine of libimagequant: the colour metric   *)
(* (src/src/simd.rs) and the vantage-point tree with its search            *)
(* (src/src/nearest.rs).                                                   *)
(*                                                                         *)
(* Numbers.  An f32 channel value is held as an even integer on a          *)
(* fixed-point grid (4 stands for 1.0), so every difference, square, sum   *)
(* and quartering the code performs is exact, as it is in f32 for values   *)
(* on a power-of-two grid.  A square root is held exactly (Sqrt) and the   *)
(* two comparisons the tree walk makes on roots are decided exactly.       *)
(***************************************************************************)
EXTENDS Integers, Sequences, FiniteSets, TLC

VARIABLES
    palette,        \* PalF: the colours, a sequence indexed by PalIndex + 1
    popularity,     \* PalF: the popularity weight of every entry
    target_x86_64,  \* cfg(target_arch = "x86_64") of the build
    cpu_avx2_fma,   \* whether the running CPU passes the Desktop64 probe
    nearest,        \* Result<Nearest, Error> of Nearest::new, or NotBuilt
    found,          \* the last Nearest::search call and what it returned
    metric,         \* the last pair handed to the metric and the three results
    calls,          \* the searches in progress on the shared index, step by step
    pending,        \* the build in progress: the slices awaiting their node
    cows,           \* seacow.rs: the SeaCow values alive, by the place that holds them
    freed,          \* how often a free function was called on each caller's buffer
    created         \* how many SeaCow values have been made so far

vars == <<palette, popularity, target_x86_64, cpu_avx2_fma, nearest, found, metric,
          calls, pending, cows, freed, created>>

-----------------------------------------------------------------------------
(* Bounds of the model and constants of the program                        *)

\* longest palette of the enumerated family (a palette of twice the length,
\* whose tree has two levels of internal nodes, is added for every stride)
MaxPalLen == 9
\* palettes start at grid colour 0..MaxStart
MaxStart == 1
\* hints 0..MaxHint are tried (and PalIndexMAX)
MaxHint == 4

LEAF_MAX_SIZE == 6
\* crate::pal (not among the sources): PalIndex = u8, MAX_COLORS = 256
PalIndexMAX == 255
MAX_COLORS == 256
\* stand-ins for f32::MAX and f32::INFINITY: above every finite value of the
\* model, INFINITY above F32_MAX, F32_MAX a multiple of 4
F32_MAX == 1000000
INFINITY == 2000000

None == <<>>
Some(x) == <<x>>

-----------------------------------------------------------------------------
(* f_pixel: ARGBF { a, r, g, b }                                           *)

Levels == {0, 2, 4}
Colors == [a : Levels, r : Levels, g : Levels, b : Levels]

f_pixel_default == [a |-> 0, r |-> 0, g |-> 0, b |-> 0]

Max(x, y) == IF x >= y THEN x ELSE y
Abs(x) == IF x >= 0 THEN x ELSE -x

-----------------------------------------------------------------------------
(* simd.rs                                                                 *)

\* summon_token(): Some(token) only on x86_64 and only if the CPU probe passes
summon_token == target_x86_64 /\ cpu_avx2_fma

\* mutant: the alpha difference is given a term of its own
diff_scalar_with_alpha(a, b) ==
    LET alpha_diff == b.a - a.a
        black_r == a.r - b.r
        black_g == a.g - b.g
        black_b == a.b - b.b
        white_r == black_r + alpha_diff
        white_g == black_g + alpha_diff
        white_b == black_b + alpha_diff
    IN  alpha_diff * alpha_diff
        + Max(black_r * black_r, white_r * white_r)
        + Max(black_g * black_g, white_g * white_g)
        + Max(black_b * black_b, white_b * white_b)

\* mutant: the larger of the two differences is squared, not the larger square
diff_scalar_max_then_square(a, b) ==
    LET alpha_diff == b.a - a.a
        black_r == a.r - b.r
        black_g == a.g - b.g
        black_b == a.b - b.b
        white_r == black_r + alpha_diff
        white_g == black_g + alpha_diff
        white_b == black_b + alpha_diff
    IN  Max(black_r, white_r) * Max(black_r, white_r)
        + Max(black_g, white_g) * Max(black_g, white_g)
        + Max(black_b, white_b) * Max(black_b, white_b)

\* mutant: the smaller of the two squares of every channel is taken
diff_scalar_min_of_squares(a, b) ==
    LET alpha_diff == b.a - a.a
        black_r == a.r - b.r
        black_g == a.g - b.g
        black_b == a.b - b.b
        white_r == black_r + alpha_diff
        white_g == black_g + alpha_diff
        white_b == black_b + alpha_diff
        Min(x, y) == IF x <= y THEN x ELSE y
    IN  Min(black_r * black_r, white_r * white_r)
        + Min(black_g * black_g, white_g * white_g)
        + Min(black_b * black_b, white_b * white_b)

diff_scalar(a, b) ==
    LET alpha_diff == b.a - a.a
        black_r == a.r - b.r
        black_g == a.g - b.g
        black_b == a.b - b.b
        white_r == black_r + alpha_diff
        white_g == black_g + alpha_diff
        white_b == black_b + alpha_diff
    IN  Max(black_r * black_r, white_r * white_r)
        + Max(black_g * black_g, white_g * white_g)
        + Max(black_b * black_b, white_b * white_b)

\* rgb::bytemuck::cast(a.0): the four lanes in field order a, r, g, b
cast(p) == <<p.a, p.r, p.g, p.b>>

\* mutant: the alpha lane is summed in place of the blue lane
diff_simd_lane0(a, b) ==
    LET px == cast(a)
        py == cast(b)
        onblack == [i \in 1..4 |-> px[i] - py[i]]
        onwhite == [i \in 1..4 |-> onblack[i] + (b.a - a.a)]
        arr == [i \in 1..4 |-> Max(onblack[i] * onblack[i], onwhite[i] * onwhite[i])]
    IN  arr[1] + arr[2] + arr[3]

\* lanes are numbered from 1 here: arr[1] of the code is arr[2]
diff_simd(a, b) ==
    LET px == cast(a)
        py == cast(b)
        alpha_diff == [i \in 1..4 |-> b.a - a.a]
        onblack == [i \in 1..4 |-> px[i] - py[i]]
        onwhite == [i \in 1..4 |-> onblack[i] + alpha_diff[i]]
        max_sq == [i \in 1..4 |-> Max(onblack[i] * onblack[i], onwhite[i] * onwhite[i])]
        arr == max_sq
    IN  arr[2] + arr[3] + arr[4]

\* the implementation diff hands the pair to: its own probe decides
diff_route == IF target_x86_64 /\ summon_token THEN "simd" ELSE "scalar"

diff(a, b) ==
    IF diff_route = "simd" THEN diff_simd(a, b) ELSE diff_scalar(a, b)


-----------------------------------------------------------------------------
(* Square roots, held exactly.  Sqrt(x) is the real number whose square is *)
(* x; Lit(k) is the number k itself (f32::MAX and f32::INFINITY are stored *)
(* in Visitor.distance unrooted).                                          *)

Sqrt(x) == [lit |-> FALSE, v |-> x]
Lit(k) == [lit |-> TRUE, v |-> k]

\* mutant: the test on the far side is made on the squared distances
GeDiff_squared(distance, radius, best) ==
    best.lit \/ distance.v >= radius.v - best.v

\* distance >= radius - best, for distance = Sqrt(d), radius = Sqrt(r):
\*   best = Sqrt(b): sqrt d + sqrt b >= sqrt r  iff  d + b >= r or 4db >= (r-d-b)^2
\*   best = Lit(k):  sqrt d + k >= sqrt r; k >= r settles it (then k >= sqrt r)
GeDiff(distance, radius, best) ==
    LET d == distance.v
        r == radius.v
    IN  IF best.lit
        THEN \/ best.v >= r
             \/ d + best.v * best.v >= r
             \/ 4 * best.v * best.v * d >= (r - d - best.v * best.v) * (r - d - best.v * best.v)
        ELSE \/ d + best.v >= r
             \/ 4 * d * best.v >= (r - d - best.v) * (r - d - best.v)

\* distance <= radius + best, likewise
LeSum(distance, radius, best) ==
    LET d == distance.v
        r == radius.v
    IN  IF best.lit
        THEN \/ best.v >= d
             \/ d <= r + best.v * best.v
             \/ (d - r - best.v * best.v) * (d - r - best.v * best.v) <= 4 * best.v * best.v * r
        ELSE \/ d <= r + best.v
             \/ (d - r - best.v) * (d - r - best.v) <= 4 * r * best.v

-----------------------------------------------------------------------------
(* nearest.rs: Visitor, Node                                               *)

\* slice.get(i) of a 0-based index, with the default the code falls back to
GetOr(s, i, default) == IF i < Len(s) THEN s[i + 1] ELSE default

\* mutant: the excluded index may replace the best match
visit_no_exclude(self, distance, distance_squared, idx) ==
    IF distance_squared < self.distance_squared
    THEN [self EXCEPT !.distance = distance,
                      !.distance_squared = distance_squared,
                      !.idx = idx]
    ELSE self

\* mutant: a candidate at the distance of the best match replaces it
visit_on_ties(self, distance, distance_squared, idx) ==
    IF distance_squared <= self.distance_squared /\ self.exclude # Some(idx)
    THEN [self EXCEPT !.distance = distance,
                      !.distance_squared = distance_squared,
                      !.idx = idx]
    ELSE self

\* mutant: the excluded index is compared with the index of the best match
visit_excludes_best(self, distance, distance_squared, idx) ==
    IF distance_squared < self.distance_squared /\ self.exclude # Some(self.idx)
    THEN [self EXCEPT !.distance = distance,
                      !.distance_squared = distance_squared,
                      !.idx = idx]
    ELSE self

visit(self, distance, distance_squared, idx) ==
    IF distance_squared < self.distance_squared /\ self.exclude # Some(idx)
    THEN [self EXCEPT !.distance = distance,
                      !.distance_squared = distance_squared,
                      !.idx = idx]
    ELSE self

\* mutant: the first entry of the slice is taken, whatever its weight
max_by_key_first(keys) == 1

\* enumerate().max_by_key(): the position of the last of the largest keys
max_by_key(keys) ==
    CHOOSE n \in 1..Len(keys) :
        \A m \in 1..Len(keys) :
            /\ keys[m] <= keys[n]
            /\ m > n => keys[m] < keys[n]

swap(s, i, j) == [s EXCEPT ![i] = s[j], ![j] = s[i]]

\* sort_by_cached_key: the keys are computed once, then the elements are put
\* in ascending order of key, equal keys keeping their original order
sort_by_cached_key(s, keys) ==
    LET n == Len(s)
        cached == keys \o <<>>
        rank == [i \in 1..n |->
                    Cardinality({j \in 1..n : \/ cached[j] < cached[i]
                                              \/ cached[j] = cached[i] /\ j < i})]
                \o <<>>
    IN  [k \in 1..n |-> s[CHOOSE i \in 1..n : rank[i] = k - 1]] \o <<>>

Leaf(len, idxs, colors) ==
    [tag |-> "Leaf", len |-> len, idxs |-> idxs, colors |-> colors]
Nodes(radius, radius_squared, near, far) ==
    [tag |-> "Nodes", radius |-> radius, radius_squared |-> radius_squared,
     near |-> near, far |-> far]
Node(vantage_point, inner, idx) ==
    [vantage_point |-> vantage_point, inner |-> inner, idx |-> idx]

-----------------------------------------------------------------------------
(* nearest.rs: scalar construction and search                              *)

\* mutant: the far half starts at the last entry of the near half
RECURSIVE vp_create_node_scalar_far_overlaps(_, _, _)
vp_create_node_scalar_far_overlaps(indexes, pal, pop) ==
    IF Len(indexes) <= 1
    THEN LET idx == IF Len(indexes) = 0 THEN 0 ELSE indexes[1]
         IN  Node(GetOr(pal, idx, f_pixel_default),
                  Leaf(0, [k \in 1..LEAF_MAX_SIZE |-> 0],
                       [k \in 1..LEAF_MAX_SIZE |-> f_pixel_default]),
                  idx)
    ELSE
    LET most_popular_item ==
            max_by_key([k \in 1..Len(indexes) |-> GetOr(pop, indexes[k], 0)])
        swapped == swap(indexes, most_popular_item, 1)
        ref_ == swapped[1]
        rest == Tail(swapped)
        vantage_point == GetOr(pal, ref_, f_pixel_default)
        sorted == sort_by_cached_key(rest,
                    [k \in 1..Len(rest) |->
                        IF rest[k] < Len(pal)
                        THEN diff_scalar(vantage_point, pal[rest[k] + 1])
                        ELSE 0])
        num_indexes == Len(sorted)
    IN  IF num_indexes <= LEAF_MAX_SIZE
        THEN Node(vantage_point,
                  Leaf(num_indexes,
                       [k \in 1..LEAF_MAX_SIZE |->
                           IF k <= num_indexes /\ sorted[k] < Len(pal)
                           THEN sorted[k] ELSE 0],
                       [k \in 1..LEAF_MAX_SIZE |->
                           IF k <= num_indexes /\ sorted[k] < Len(pal)
                           THEN pal[sorted[k] + 1] ELSE f_pixel_default]),
                  ref_)
        ELSE
        LET half_index == num_indexes \div 2
            near == SubSeq(sorted, 1, half_index)
            far == SubSeq(sorted, half_index, num_indexes)
            radius_squared ==
                IF far[1] < Len(pal)
                THEN diff_scalar(vantage_point, pal[far[1] + 1])
                ELSE 0
            radius == Sqrt(radius_squared)
        IN  Node(vantage_point,
                 Nodes(radius, radius_squared,
                       vp_create_node_scalar_far_overlaps(near, pal, pop),
                       vp_create_node_scalar_far_overlaps(far, pal, pop)),
                 ref_)

\* mutant: the radius is taken from the last entry of the near half
RECURSIVE vp_create_node_scalar_radius_of_near(_, _, _)
vp_create_node_scalar_radius_of_near(indexes, pal, pop) ==
    IF Len(indexes) <= 1
    THEN LET idx == IF Len(indexes) = 0 THEN 0 ELSE indexes[1]
         IN  Node(GetOr(pal, idx, f_pixel_default),
                  Leaf(0, [k \in 1..LEAF_MAX_SIZE |-> 0],
                       [k \in 1..LEAF_MAX_SIZE |-> f_pixel_default]),
                  idx)
    ELSE
    LET most_popular_item ==
            max_by_key([k \in 1..Len(indexes) |-> GetOr(pop, indexes[k], 0)])
        swapped == swap(indexes, most_popular_item, 1)
        ref_ == swapped[1]
        rest == Tail(swapped)
        vantage_point == GetOr(pal, ref_, f_pixel_default)
        sorted == sort_by_cached_key(rest,
                    [k \in 1..Len(rest) |->
                        IF rest[k] < Len(pal)
                        THEN diff_scalar(vantage_point, pal[rest[k] + 1])
                        ELSE 0])
        num_indexes == Len(sorted)
    IN  IF num_indexes <= LEAF_MAX_SIZE
        THEN Node(vantage_point,
                  Leaf(num_indexes,
                       [k \in 1..LEAF_MAX_SIZE |->
                           IF k <= num_indexes /\ sorted[k] < Len(pal)
                           THEN sorted[k] ELSE 0],
                       [k \in 1..LEAF_MAX_SIZE |->
                           IF k <= num_indexes /\ sorted[k] < Len(pal)
                           THEN pal[sorted[k] + 1] ELSE f_pixel_default]),
                  ref_)
        ELSE
        LET half_index == num_indexes \div 2
            near == SubSeq(sorted, 1, half_index)
            far == SubSeq(sorted, half_index + 1, num_indexes)
            radius_squared ==
                IF near[half_index] < Len(pal)
                THEN diff_scalar(vantage_point, pal[near[half_index] + 1])
                ELSE 0
            radius == Sqrt(radius_squared)
        IN  Node(vantage_point,
                 Nodes(radius, radius_squared,
                       vp_create_node_scalar_radius_of_near(near, pal, pop),
                       vp_create_node_scalar_radius_of_near(far, pal, pop)),
                 ref_)

\* mutant: a remainder of LEAF_MAX_SIZE + 1 entries is still made a Leaf
RECURSIVE vp_create_node_scalar_leaf_of_seven(_, _, _)
vp_create_node_scalar_leaf_of_seven(indexes, pal, pop) ==
    IF Len(indexes) <= 1
    THEN LET idx == IF Len(indexes) = 0 THEN 0 ELSE indexes[1]
         IN  Node(GetOr(pal, idx, f_pixel_default),
                  Leaf(0, [k \in 1..LEAF_MAX_SIZE |-> 0],
                       [k \in 1..LEAF_MAX_SIZE |-> f_pixel_default]),
                  idx)
    ELSE
    LET most_popular_item ==
            max_by_key([k \in 1..Len(indexes) |-> GetOr(pop, indexes[k], 0)])
        swapped == swap(indexes, most_popular_item, 1)
        ref_ == swapped[1]
        rest == Tail(swapped)
        vantage_point == GetOr(pal, ref_, f_pixel_default)
        sorted == sort_by_cached_key(rest,
                    [k \in 1..Len(rest) |->
                        IF rest[k] < Len(pal)
                        THEN diff_scalar(vantage_point, pal[rest[k] + 1])
                        ELSE 0])
        num_indexes == Len(sorted)
    IN  IF num_indexes <= LEAF_MAX_SIZE + 1
        THEN Node(vantage_point,
                  Leaf(num_indexes,
                       [k \in 1..LEAF_MAX_SIZE |->
                           IF k <= num_indexes /\ sorted[k] < Len(pal)
                           THEN sorted[k] ELSE 0],
                       [k \in 1..LEAF_MAX_SIZE |->
                           IF k <= num_indexes /\ sorted[k] < Len(pal)
                           THEN pal[sorted[k] + 1] ELSE f_pixel_default]),
                  ref_)
        ELSE
        LET half_index == num_indexes \div 2
            near == SubSeq(sorted, 1, half_index)
            far == SubSeq(sorted, half_index + 1, num_indexes)
            radius_squared ==
                IF far[1] < Len(pal)
                THEN diff_scalar(vantage_point, pal[far[1] + 1])
                ELSE 0
            radius == Sqrt(radius_squared)
        IN  Node(vantage_point,
                 Nodes(radius, radius_squared,
                       vp_create_node_scalar_leaf_of_seven(near, pal, pop),
                       vp_create_node_scalar_leaf_of_seven(far, pal, pop)),
                 ref_)

\* mutant: the midpoint is rounded up
RECURSIVE vp_create_node_scalar_half_rounded_up(_, _, _)
vp_create_node_scalar_half_rounded_up(indexes, pal, pop) ==
    IF Len(indexes) <= 1
    THEN LET idx == IF Len(indexes) = 0 THEN 0 ELSE indexes[1]
         IN  Node(GetOr(pal, idx, f_pixel_default),
                  Leaf(0, [k \in 1..LEAF_MAX_SIZE |-> 0],
                       [k \in 1..LEAF_MAX_SIZE |-> f_pixel_default]),
                  idx)
    ELSE
    LET most_popular_item ==
            max_by_key([k \in 1..Len(indexes) |-> GetOr(pop, indexes[k], 0)])
        swapped == swap(indexes, most_popular_item, 1)
        ref_ == swapped[1]
        rest == Tail(swapped)
        vantage_point == GetOr(pal, ref_, f_pixel_default)
        sorted == sort_by_cached_key(rest,
                    [k \in 1..Len(rest) |->
                        IF rest[k] < Len(pal)
                        THEN diff_scalar(vantage_point, pal[rest[k] + 1])
                        ELSE 0])
        num_indexes == Len(sorted)
    IN  IF num_indexes <= LEAF_MAX_SIZE
        THEN Node(vantage_point,
                  Leaf(num_indexes,
                       [k \in 1..LEAF_MAX_SIZE |->
                           IF k <= num_indexes /\ sorted[k] < Len(pal)
                           THEN sorted[k] ELSE 0],
                       [k \in 1..LEAF_MAX_SIZE |->
                           IF k <= num_indexes /\ sorted[k] < Len(pal)
                           THEN pal[sorted[k] + 1] ELSE f_pixel_default]),
                  ref_)
        ELSE
        LET half_index == (num_indexes + 1) \div 2
            near == SubSeq(sorted, 1, half_index)
            far == SubSeq(sorted, half_index + 1, num_indexes)
            radius_squared ==
                IF far[1] < Len(pal)
                THEN diff_scalar(vantage_point, pal[far[1] + 1])
                ELSE 0
            radius == Sqrt(radius_squared)
        IN  Node(vantage_point,
                 Nodes(radius, radius_squared,
                       vp_create_node_scalar_half_rounded_up(near, pal, pop),
                       vp_create_node_scalar_half_rounded_up(far, pal, pop)),
                 ref_)

RECURSIVE vp_create_node_scalar(_, _, _)
vp_create_node_scalar(indexes, pal, pop) ==
    IF Len(indexes) <= 1
    THEN LET idx == IF Len(indexes) = 0 THEN 0 ELSE indexes[1]
         IN  Node(GetOr(pal, idx, f_pixel_default),
                  Leaf(0, [k \in 1..LEAF_MAX_SIZE |-> 0],
                       [k \in 1..LEAF_MAX_SIZE |-> f_pixel_default]),
                  idx)
    ELSE
    LET most_popular_item ==
            max_by_key([k \in 1..Len(indexes) |-> GetOr(pop, indexes[k], 0)])
        swapped == swap(indexes, most_popular_item, 1)
        ref_ == swapped[1]
        rest == Tail(swapped)
        vantage_point == GetOr(pal, ref_, f_pixel_default)
        sorted == sort_by_cached_key(rest,
                    [k \in 1..Len(rest) |->
                        IF rest[k] < Len(pal)
                        THEN diff_scalar(vantage_point, pal[rest[k] + 1])
                        ELSE 0])
        num_indexes == Len(sorted)
    IN  IF num_indexes <= LEAF_MAX_SIZE
        THEN Node(vantage_point,
                  Leaf(num_indexes,
                       [k \in 1..LEAF_MAX_SIZE |->
                           IF k <= num_indexes /\ sorted[k] < Len(pal)
                           THEN sorted[k] ELSE 0],
                       [k \in 1..LEAF_MAX_SIZE |->
                           IF k <= num_indexes /\ sorted[k] < Len(pal)
                           THEN pal[sorted[k] + 1] ELSE f_pixel_default]),
                  ref_)
        ELSE
        LET half_index == num_indexes \div 2
            near == SubSeq(sorted, 1, half_index)
            far == SubSeq(sorted, half_index + 1, num_indexes)
            radius_squared ==
                IF far[1] < Len(pal)
                THEN diff_scalar(vantage_point, pal[far[1] + 1])
                ELSE 0
            radius == Sqrt(radius_squared)
        IN  Node(vantage_point,
                 Nodes(radius, radius_squared,
                       vp_create_node_scalar(near, pal, pop),
                       vp_create_node_scalar(far, pal, pop)),
                 ref_)

\* the Leaf arm: the first num entries of the inline list, in order
RECURSIVE leaf_scan_scalar(_, _, _, _, _)
leaf_scan_scalar(inner, k, num, needle, best_candidate) ==
    IF k > num \/ k > LEAF_MAX_SIZE
    THEN best_candidate
    ELSE LET distance_squared == diff_scalar(inner.colors[k], needle)
         IN  leaf_scan_scalar(inner, k + 1, num, needle,
                 visit(best_candidate, Sqrt(distance_squared), distance_squared,
                       inner.idxs[k]))

\* mutant: the two pruning tests compare squared distances
RECURSIVE vp_search_node_scalar_squared_bounds(_, _, _)
vp_search_node_scalar_squared_bounds(node, needle, best_candidate) ==
    LET distance_squared == diff_scalar(node.vantage_point, needle)
        distance == Sqrt(distance_squared)
        best1 == visit(best_candidate, distance, distance_squared, node.idx)
    IN  IF node.inner.tag = "Nodes"
        THEN IF distance_squared < node.inner.radius_squared
             THEN LET best2 == vp_search_node_scalar_squared_bounds(node.inner.near, needle, best1)
                  IN  IF distance_squared >= node.inner.radius_squared - best2.distance_squared
                      THEN vp_search_node_scalar_squared_bounds(node.inner.far, needle, best2)
                      ELSE best2
             ELSE LET best2 == vp_search_node_scalar_squared_bounds(node.inner.far, needle, best1)
                  IN  IF distance_squared <= node.inner.radius_squared + best2.distance_squared
                      THEN vp_search_node_scalar_squared_bounds(node.inner.near, needle, best2)
                      ELSE best2
        ELSE leaf_scan_scalar(node.inner, 1, node.inner.len, needle, best1)

\* mutant: the node's own vantage is not offered as a candidate
RECURSIVE vp_search_node_scalar_no_vantage(_, _, _)
vp_search_node_scalar_no_vantage(node, needle, best_candidate) ==
    LET distance_squared == diff_scalar(node.vantage_point, needle)
        distance == Sqrt(distance_squared)
        best1 == best_candidate
    IN  IF node.inner.tag = "Nodes"
        THEN IF distance_squared < node.inner.radius_squared
             THEN LET best2 == vp_search_node_scalar_no_vantage(node.inner.near, needle, best1)
                  IN  IF GeDiff(distance, node.inner.radius, best2.distance)
                      THEN vp_search_node_scalar_no_vantage(node.inner.far, needle, best2)
                      ELSE best2
             ELSE LET best2 == vp_search_node_scalar_no_vantage(node.inner.far, needle, best1)
                  IN  IF LeSum(distance, node.inner.radius, best2.distance)
                      THEN vp_search_node_scalar_no_vantage(node.inner.near, needle, best2)
                      ELSE best2
        ELSE leaf_scan_scalar(node.inner, 1, node.inner.len, needle, best1)

RECURSIVE vp_search_node_scalar(_, _, _)
vp_search_node_scalar(node, needle, best_candidate) ==
    LET distance_squared == diff_scalar(node.vantage_point, needle)
        distance == Sqrt(distance_squared)
        best1 == visit(best_candidate, distance, distance_squared, node.idx)
    IN  IF node.inner.tag = "Nodes"
        THEN IF distance_squared < node.inner.radius_squared
             THEN LET best2 == vp_search_node_scalar(node.inner.near, needle, best1)
                  IN  IF GeDiff(distance, node.inner.radius, best2.distance)
                      THEN vp_search_node_scalar(node.inner.far, needle, best2)
                      ELSE best2
             ELSE LET best2 == vp_search_node_scalar(node.inner.far, needle, best1)
                  IN  IF LeSum(distance, node.inner.radius, best2.distance)
                      THEN vp_search_node_scalar(node.inner.near, needle, best2)
                      ELSE best2
        ELSE leaf_scan_scalar(node.inner, 1, node.inner.len, needle, best1)

Err(e) == [tag |-> "Err", error |-> e]
Ok(root, nocd, has_simd) ==
    [tag |-> "Ok", root |-> root, nearest_other_color_dist |-> nocd,
     has_simd |-> has_simd]
NotBuilt == [tag |-> "NotBuilt"]

Visitor(distance, distance_squared, idx, exclude) ==
    [distance |-> distance, distance_squared |-> distance_squared,
     idx |-> idx, exclude |-> exclude]

\* mutant: the cached distance is stored without being quartered
new_scalar_unquartered(pal, pop) ==
    IF Len(pal) > PalIndexMAX + 1
    THEN Err("Unsupported")
    ELSE
    LET indexes == [i \in 1..Len(pal) |-> (i - 1) % (PalIndexMAX + 1)]
    IN  IF Len(indexes) = 0
        THEN Err("Unsupported")
        ELSE
        LET root == vp_create_node_scalar(indexes, pal, pop)
            warm(i) == vp_search_node_scalar(root, pal[i + 1],
                           Visitor(Lit(F32_MAX), F32_MAX, 0, Some(i % (PalIndexMAX + 1))))
        IN  Ok(root,
               [i \in 1..MAX_COLORS |->
                   IF i <= Len(pal) THEN warm(i - 1).distance_squared ELSE 0],
               FALSE)

\* mutant: a palette of PalIndex::MAX + 1 entries is refused
new_scalar_off_by_one(pal, pop) ==
    IF Len(pal) > PalIndexMAX
    THEN Err("Unsupported")
    ELSE
    LET indexes == [i \in 1..Len(pal) |-> (i - 1) % (PalIndexMAX + 1)]
    IN  IF Len(indexes) = 0
        THEN Err("Unsupported")
        ELSE
        LET root == vp_create_node_scalar(indexes, pal, pop)
            warm(i) == vp_search_node_scalar(root, pal[i + 1],
                           Visitor(Lit(F32_MAX), F32_MAX, 0, Some(i % (PalIndexMAX + 1))))
        IN  Ok(root,
               [i \in 1..MAX_COLORS |->
                   IF i <= Len(pal) THEN warm(i - 1).distance_squared \div 4 ELSE 0],
               FALSE)

\* mutant: a palette of one entry is refused like an empty one
new_scalar_rejects_single(pal, pop) ==
    IF Len(pal) > PalIndexMAX + 1
    THEN Err("Unsupported")
    ELSE
    LET indexes == [i \in 1..Len(pal) |-> (i - 1) % (PalIndexMAX + 1)]
    IN  IF Len(indexes) <= 1
        THEN Err("Unsupported")
        ELSE
        LET root == vp_create_node_scalar(indexes, pal, pop)
            warm(i) == vp_search_node_scalar(root, pal[i + 1],
                           Visitor(Lit(F32_MAX), F32_MAX, 0, Some(i % (PalIndexMAX + 1))))
        IN  Ok(root,
               [i \in 1..MAX_COLORS |->
                   IF i <= Len(pal) THEN warm(i - 1).distance_squared \div 4 ELSE 0],
               FALSE)

new_scalar(pal, pop) ==
    IF Len(pal) > PalIndexMAX + 1
    THEN Err("Unsupported")
    ELSE
    LET indexes == [i \in 1..Len(pal) |-> (i - 1) % (PalIndexMAX + 1)]
    IN  IF Len(indexes) = 0
        THEN Err("Unsupported")
        ELSE
        LET root == vp_create_node_scalar(indexes, pal, pop)
            warm(i) == vp_search_node_scalar(root, pal[i + 1],
                           Visitor(Lit(F32_MAX), F32_MAX, 0, Some(i % (PalIndexMAX + 1))))
        IN  Ok(root,
               [i \in 1..MAX_COLORS |->
                   IF i <= Len(pal) THEN warm(i - 1).distance_squared \div 4 ELSE 0],
               FALSE)

search_scalar(self, pal, px, likely_colormap_index) ==
    IF likely_colormap_index < Len(pal)
    THEN LET pal_px == pal[likely_colormap_index + 1]
             guess_diff == diff_scalar(px, pal_px)
         IN  IF guess_diff < self.nearest_other_color_dist[likely_colormap_index + 1]
             THEN <<likely_colormap_index, guess_diff>>
             ELSE LET best_candidate ==
                          vp_search_node_scalar(self.root, px,
                              Visitor(Sqrt(guess_diff), guess_diff,
                                      likely_colormap_index, None))
                  IN  <<best_candidate.idx, best_candidate.distance_squared>>
    ELSE LET best_candidate ==
                 vp_search_node_scalar(self.root, px,
                     Visitor(Lit(INFINITY), INFINITY, 0, None))
         IN  <<best_candidate.idx, best_candidate.distance_squared>>

-----------------------------------------------------------------------------
(* nearest.rs: vector construction and search (x86_64, under a token)      *)

RECURSIVE vp_create_node_simd(_, _, _)
vp_create_node_simd(indexes, pal, pop) ==
    IF Len(indexes) <= 1
    THEN LET idx == IF Len(indexes) = 0 THEN 0 ELSE indexes[1]
         IN  Node(GetOr(pal, idx, f_pixel_default),
                  Leaf(0, [k \in 1..LEAF_MAX_SIZE |-> 0],
                       [k \in 1..LEAF_MAX_SIZE |-> f_pixel_default]),
                  idx)
    ELSE
    LET most_popular_item ==
            max_by_key([k \in 1..Len(indexes) |-> GetOr(pop, indexes[k], 0)])
        swapped == swap(indexes, most_popular_item, 1)
        ref_ == swapped[1]
        rest == Tail(swapped)
        vantage_point == GetOr(pal, ref_, f_pixel_default)
        sorted == sort_by_cached_key(rest,
                    [k \in 1..Len(rest) |->
                        IF rest[k] < Len(pal)
                        THEN diff_simd(vantage_point, pal[rest[k] + 1])
                        ELSE 0])
        num_indexes == Len(sorted)
    IN  IF num_indexes <= LEAF_MAX_SIZE
        THEN Node(vantage_point,
                  Leaf(num_indexes,
                       [k \in 1..LEAF_MAX_SIZE |->
                           IF k <= num_indexes /\ sorted[k] < Len(pal)
                           THEN sorted[k] ELSE 0],
                       [k \in 1..LEAF_MAX_SIZE |->
                           IF k <= num_indexes /\ sorted[k] < Len(pal)
                           THEN pal[sorted[k] + 1] ELSE f_pixel_default]),
                  ref_)
        ELSE
        LET half_index == num_indexes \div 2
            near == SubSeq(sorted, 1, half_index)
            far == SubSeq(sorted, half_index + 1, num_indexes)
            radius_squared ==
                IF far[1] < Len(pal)
                THEN diff_simd(vantage_point, pal[far[1] + 1])
                ELSE 0
            radius == Sqrt(radius_squared)
        IN  Node(vantage_point,
                 Nodes(radius, radius_squared,
                       vp_create_node_simd(near, pal, pop),
                       vp_create_node_simd(far, pal, pop)),
                 ref_)

\* the Leaf arm: the first num entries of the inline list, in order
RECURSIVE leaf_scan_simd(_, _, _, _, _)
leaf_scan_simd(inner, k, num, needle, best_candidate) ==
    IF k > num \/ k > LEAF_MAX_SIZE
    THEN best_candidate
    ELSE LET distance_squared == diff_simd(inner.colors[k], needle)
         IN  leaf_scan_simd(inner, k + 1, num, needle,
                 visit(best_candidate, Sqrt(distance_squared), distance_squared,
                       inner.idxs[k]))

RECURSIVE vp_search_node_simd(_, _, _)
vp_search_node_simd(node, needle, best_candidate) ==
    LET distance_squared == diff_simd(node.vantage_point, needle)
        distance == Sqrt(distance_squared)
        best1 == visit(best_candidate, distance, distance_squared, node.idx)
    IN  IF node.inner.tag = "Nodes"
        THEN IF distance_squared < node.inner.radius_squared
             THEN LET best2 == vp_search_node_simd(node.inner.near, needle, best1)
                  IN  IF GeDiff(distance, node.inner.radius, best2.distance)
                      THEN vp_search_node_simd(node.inner.far, needle, best2)
                      ELSE best2
             ELSE LET best2 == vp_search_node_simd(node.inner.far, needle, best1)
                  IN  IF LeSum(distance, node.inner.radius, best2.distance)
                      THEN vp_search_node_simd(node.inner.near, needle, best2)
                      ELSE best2
        ELSE leaf_scan_simd(node.inner, 1, node.inner.len, needle, best1)

new_simd(pal, pop) ==
    IF Len(pal) > PalIndexMAX + 1
    THEN Err("Unsupported")
    ELSE
    LET indexes == [i \in 1..Len(pal) |-> (i - 1) % (PalIndexMAX + 1)]
    IN  IF Len(indexes) = 0
        THEN Err("Unsupported")
        ELSE
        LET root == vp_create_node_simd(indexes, pal, pop)
            warm(i) == vp_search_node_simd(root, pal[i + 1],
                           Visitor(Lit(F32_MAX), F32_MAX, 0, Some(i % (PalIndexMAX + 1))))
        IN  Ok(root,
               [i \in 1..MAX_COLORS |->
                   IF i <= Len(pal) THEN warm(i - 1).distance_squared \div 4 ELSE 0],
               TRUE)

search_simd_inner(this, pal, px, likely_colormap_index) ==
    IF likely_colormap_index < Len(pal)
    THEN LET pal_px == pal[likely_colormap_index + 1]
             guess_diff == diff_simd(px, pal_px)
         IN  IF guess_diff < this.nearest_other_color_dist[likely_colormap_index + 1]
             THEN <<likely_colormap_index, guess_diff>>
             ELSE LET best_candidate ==
                          vp_search_node_simd(this.root, px,
                              Visitor(Sqrt(guess_diff), guess_diff,
                                      likely_colormap_index, None))
                  IN  <<best_candidate.idx, best_candidate.distance_squared>>
    ELSE LET best_candidate ==
                 vp_search_node_simd(this.root, px,
                     Visitor(Lit(INFINITY), INFINITY, 0, None))
         IN  <<best_candidate.idx, best_candidate.distance_squared>>


-----------------------------------------------------------------------------
(* nearest.rs: the dispatching entry points                                *)

\* the build routine Nearest::new hands the palette to
new_route == IF target_x86_64 /\ summon_token THEN "simd" ELSE "scalar"

\* Nearest::new
new(pal, pop) ==
    IF new_route = "simd"
    THEN new_simd(pal, pop)
    ELSE new_scalar(pal, pop)

\* mutant: the search probes the CPU only, whatever path built the index
search_route_ignores_has_simd(self) ==
    IF target_x86_64 /\ summon_token THEN "simd" ELSE "scalar"

\* the search routine Nearest::search hands the query to
search_route(self) ==
    IF target_x86_64 /\ self.has_simd /\ summon_token THEN "simd" ELSE "scalar"

\* Nearest::search
search(self, pal, px, likely_colormap_index) ==
    IF search_route(self) = "simd"
    THEN search_simd_inner(self, pal, px, likely_colormap_index)
    ELSE search_scalar(self, pal, px, likely_colormap_index)

-----------------------------------------------------------------------------
(* The inputs: a family of palettes on the colour grid, every grid colour  *)
(* as a query, and the hints                                               *)

\* the grid colour number k, 0 <= k < 81, its channels the base-3 digits of k
ColorAt(k) ==
    [a |-> 2 * ((k \div 27) % 3), r |-> 2 * ((k \div 9) % 3),
     g |-> 2 * ((k \div 3) % 3), b |-> 2 * (k % 3)]

Strides == {1, 7, 27}

GenPalette(n, start, stride) ==
    [i \in 1..n |-> ColorAt((start + (i - 1) * stride) % 81)]

\* pattern 0: all weights equal; pattern 1: weights cycling through 0..3
PopPatterns == {0, 1}
GenPopularity(n, pattern) == [i \in 1..n |-> (i * pattern) % 4]

PaletteParams ==
    ((0..MaxPalLen) \X (0..MaxStart) \X Strides \X PopPatterns)
    \cup ({2 * MaxPalLen} \X {0} \X Strides \X {1})
    \cup ({MAX_COLORS - 1, MAX_COLORS, MAX_COLORS + 1} \X {0} \X {7} \X {1})

Hints == (0..MaxHint) \cup {PalIndexMAX}

\* the finer grid the metric alone is applied to
MetricLevels == {0, 1, 2, 4}
MetricColors == [a : MetricLevels, r : MetricLevels, g : MetricLevels, b : MetricLevels]

-----------------------------------------------------------------------------
(* The state machine                                                       *)

Init ==
    /\ \E p \in PaletteParams :
          /\ palette = GenPalette(p[1], p[2], p[3])
          /\ popularity = GenPopularity(p[1], p[4])
    /\ target_x86_64 \in BOOLEAN
    /\ cpu_avx2_fma \in BOOLEAN
    /\ cpu_avx2_fma => target_x86_64
    /\ nearest = NotBuilt
    /\ found = None
    /\ metric = None
    /\ calls = <<>>
    /\ pending = None
    /\ cows = <<>>
    /\ freed = <<>>
    /\ created = 0

\* Nearest::new(&palette)
New ==
    /\ nearest = NotBuilt
    /\ nearest' = new(palette, popularity)
    /\ found' = None
    /\ UNCHANGED <<palette, popularity, target_x86_64, cpu_avx2_fma, metric, calls, pending,
                 cows, freed, created>>

\* nearest.search(&px, likely_colormap_index) on a built index
Search ==
    /\ nearest.tag = "Ok"
    /\ found = None
    /\ \E px \in Colors, likely_colormap_index \in Hints :
          LET r == search(nearest, palette, px, likely_colormap_index)
          IN  found' = Some([px |-> px, likely |-> likely_colormap_index,
                             idx |-> r[1], distance_squared |-> r[2],
                             token |-> summon_token,
                             route |-> search_route(nearest)])
    /\ UNCHANGED <<palette, popularity, target_x86_64, cpu_avx2_fma, nearest, metric, calls, pending,
                 cows, freed, created>>

\* the caller takes the returned pair and goes on to its next pixel
NextPixel ==
    /\ found # None
    /\ found' = None
    /\ UNCHANGED <<palette, popularity, target_x86_64, cpu_avx2_fma, nearest, metric, calls, pending,
                 cows, freed, created>>

Next == New \/ Search \/ NextPixel

Spec == Init /\ [][Next]_vars

(* The metric on its own: a pair of colours, then the three entry points   *)

InitMetric ==
    /\ palette = <<>>
    /\ popularity = <<>>
    /\ target_x86_64 \in BOOLEAN
    /\ cpu_avx2_fma \in BOOLEAN
    /\ cpu_avx2_fma => target_x86_64
    /\ nearest = NotBuilt
    /\ found = None
    /\ \E a \in MetricColors, b \in MetricColors :
          metric = [a |-> a, b |-> b, out |-> None]
    /\ calls = <<>>
    /\ pending = None
    /\ cows = <<>>
    /\ freed = <<>>
    /\ created = 0

\* diff_scalar(a, b), diff(a, b) and, under a token, diff_simd(token, a, b)
Diff ==
    /\ metric.out = None
    /\ metric' = [metric EXCEPT !.out =
                    Some([scalar |-> diff_scalar(metric.a, metric.b),
                          dispatch |-> diff(metric.a, metric.b),
                          route |-> diff_route,
                          simd |-> IF summon_token
                                   THEN Some(diff_simd(metric.a, metric.b))
                                   ELSE None])]
    /\ UNCHANGED <<palette, popularity, target_x86_64, cpu_avx2_fma, nearest, found, calls, pending,
                 cows, freed, created>>

NextMetric == Diff

SpecMetric == InitMetric /\ [][NextMetric]_vars

(* The metric on three colours: the three distances between them           *)

\* the colours of the triples: alpha and red on the finer grid
TriangleColors == [a : MetricLevels, r : MetricLevels, g : {0, 2}, b : {0}]

InitTriangle ==
    /\ palette = <<>>
    /\ popularity = <<>>
    /\ target_x86_64 \in BOOLEAN
    /\ cpu_avx2_fma \in BOOLEAN
    /\ cpu_avx2_fma => target_x86_64
    /\ nearest = NotBuilt
    /\ found = None
    /\ \E a \in TriangleColors, b \in TriangleColors, c \in TriangleColors :
          metric = [a |-> a, b |-> b, c |-> c, out |-> None]
    /\ calls = <<>>
    /\ pending = None
    /\ cows = <<>>
    /\ freed = <<>>
    /\ created = 0

\* diff_scalar and diff on the three pairs
DiffTriangle ==
    /\ metric.out = None
    /\ metric' = [metric EXCEPT !.out =
                    Some([scalar_ab |-> diff_scalar(metric.a, metric.b),
                          scalar_bc |-> diff_scalar(metric.b, metric.c),
                          scalar_ac |-> diff_scalar(metric.a, metric.c),
                          dispatch_ab |-> diff(metric.a, metric.b),
                          dispatch_bc |-> diff(metric.b, metric.c),
                          dispatch_ac |-> diff(metric.a, metric.c)])]
    /\ UNCHANGED <<palette, popularity, target_x86_64, cpu_avx2_fma, nearest, found, calls, pending,
                 cows, freed, created>>

NextTriangle == DiffTriangle

SpecTriangle == InitTriangle /\ [][NextTriangle]_vars

(* The three dispatching operations of one process, each with its own      *)
(* probe of the CPU: a build, searches and the dispatching metric, the     *)
(* outcome of the probe free to differ from one operation to the next      *)

\* the palettes of this specification: a single entry, a single leaf, a tree
DispatchPalLens == {1, 2, MaxPalLen}
\* a pair of colours with different alpha for the metric
DispatchPairs == {<<ColorAt(0), ColorAt(41)>>, <<ColorAt(80), ColorAt(27)>>}

InitDispatch ==
    /\ \E n \in DispatchPalLens :
          /\ palette = GenPalette(n, 0, 7)
          /\ popularity = GenPopularity(n, 1)
    /\ target_x86_64 \in BOOLEAN
    /\ cpu_avx2_fma \in BOOLEAN
    /\ cpu_avx2_fma => target_x86_64
    /\ nearest = NotBuilt
    /\ found = None
    /\ \E pair \in DispatchPairs :
          metric = [a |-> pair[1], b |-> pair[2], out |-> None]
    /\ calls = <<>>
    /\ pending = None
    /\ cows = <<>>
    /\ freed = <<>>
    /\ created = 0

\* SimdToken64::summon() is asked anew by every operation; on x86_64 what it
\* answers to the next operation is not fixed by what it answered before
TokenAvailability ==
    /\ target_x86_64
    /\ cpu_avx2_fma' = ~cpu_avx2_fma
    /\ UNCHANGED <<palette, popularity, target_x86_64, nearest, found, metric, calls, pending,
                 cows, freed, created>>

NextDispatch == New \/ Search \/ NextPixel \/ Diff \/ TokenAvailability

SpecDispatch == InitDispatch /\ [][NextDispatch]_vars

(* Searches in progress at once on one built index (&self is shared), each *)
(* a walk of the tree taken one node at a time.  A call keeps its place in *)
(* the walk as a stack: the node to enter next, and, for every internal    *)
(* node whose first side is being walked, the side still to be decided.    *)

\* the threads searching at once
Calls == {1, 2}
\* the palettes, the queries and the hints of this specification
WalkPalLens == {MaxPalLen, 2 * MaxPalLen}
WalkColors == {ColorAt(k) : k \in {0, 4, 41}}
WalkHints == {0, 5, 7, PalIndexMAX}

\* mutant: every call keeps its best match in the slot of call 1
accumulator_shared(c) == 1

\* the accumulator a call writes: its own local best_candidate
accumulator_of(c) == c

IdleCall ==
    [pc |-> "idle", px |-> f_pixel_default, likely |-> 0, route |-> "scalar",
     best_candidate |-> Visitor(Lit(INFINITY), INFINITY, 0, None),
     stack |-> <<>>, skipped |-> None, result |-> None]

Enter(node) == [op |-> "visit", node |-> node, distance |-> Sqrt(0)]
Pending(op, node, distance) == [op |-> op, node |-> node, distance |-> distance]

\* the metric of the routine the call was dispatched to
walk_diff(route, a, b) ==
    IF route = "simd" THEN diff_simd(a, b) ELSE diff_scalar(a, b)

InitWalk ==
    /\ \E n \in WalkPalLens :
          /\ palette = GenPalette(n, 0, 7)
          /\ popularity = GenPopularity(n, 1)
    /\ target_x86_64 \in BOOLEAN
    /\ cpu_avx2_fma \in BOOLEAN
    /\ cpu_avx2_fma => target_x86_64
    /\ nearest = new(palette, popularity)
    /\ found = None
    /\ metric = None
    /\ calls = [c \in Calls |-> IdleCall]
    /\ pending = None
    /\ cows = <<>>
    /\ freed = <<>>
    /\ created = 0

\* Nearest::search up to the call of vp_search_node: the dispatch, the fast
\* path on the hint, the accumulator the walk starts with
Begin(c) ==
    /\ calls[c].pc = "idle"
    /\ \E px \in WalkColors, likely_colormap_index \in WalkHints :
          LET route == search_route(nearest)
              guess_diff == walk_diff(route, px, palette[likely_colormap_index + 1])
              started(best_candidate) ==
                  [calls EXCEPT
                     ![c] = [IdleCall EXCEPT !.pc = "walk", !.px = px,
                                !.likely = likely_colormap_index, !.route = route,
                                !.best_candidate = calls[c].best_candidate,
                                !.stack = <<Enter(nearest.root)>>],
                     ![accumulator_of(c)].best_candidate = best_candidate]
          IN  IF likely_colormap_index < Len(palette)
              THEN IF guess_diff < nearest.nearest_other_color_dist[likely_colormap_index + 1]
                   THEN calls' = [calls EXCEPT
                                    ![c] = [IdleCall EXCEPT !.pc = "done", !.px = px,
                                               !.likely = likely_colormap_index,
                                               !.route = route,
                                               !.best_candidate = calls[c].best_candidate,
                                               !.result = Some(<<likely_colormap_index, guess_diff>>)]]
                   ELSE calls' = started(Visitor(Sqrt(guess_diff), guess_diff,
                                                 likely_colormap_index, None))
              ELSE calls' = started(Visitor(Lit(INFINITY), INFINITY, 0, None))
    /\ UNCHANGED <<palette, popularity, target_x86_64, cpu_avx2_fma, nearest, found, metric, pending,
                 cows, freed, created>>

\* one turn of vp_search_node: enter a node (visit its vantage, then scan the
\* leaf or go down the first side), or decide about the second side of a
\* node whose first side has been walked
Step(c) ==
    /\ calls[c].pc = "walk"
    /\ calls[c].stack # <<>>
    /\ LET self == calls[c]
           item == Head(self.stack)
           rest == Tail(self.stack)
           node == item.node
           best_candidate == calls[accumulator_of(c)].best_candidate
           went(stack, best, skipped) ==
               [calls EXCEPT ![c].stack = stack, ![c].skipped = skipped,
                             ![accumulator_of(c)].best_candidate = best]
       IN  IF item.op = "visit"
           THEN LET distance_squared == walk_diff(self.route, node.vantage_point, self.px)
                    distance == Sqrt(distance_squared)
                    best1 == visit(best_candidate, distance, distance_squared, node.idx)
                IN  IF node.inner.tag = "Nodes"
                    THEN IF distance_squared < node.inner.radius_squared
                         THEN calls' = went(<<Enter(node.inner.near),
                                              Pending("far", node, distance)>> \o rest,
                                            best1, None)
                         ELSE calls' = went(<<Enter(node.inner.far),
                                              Pending("near", node, distance)>> \o rest,
                                            best1, None)
                    ELSE calls' = went(rest,
                                       IF self.route = "simd"
                                       THEN leaf_scan_simd(node.inner, 1, node.inner.len,
                                                           self.px, best1)
                                       ELSE leaf_scan_scalar(node.inner, 1, node.inner.len,
                                                             self.px, best1),
                                       None)
           ELSE IF item.op = "far"
           THEN IF GeDiff(item.distance, node.inner.radius, best_candidate.distance)
                THEN calls' = went(<<Enter(node.inner.far)>> \o rest, best_candidate, None)
                ELSE calls' = went(rest, best_candidate,
                                   Some([side |-> "far", node |-> node,
                                         distance |-> item.distance,
                                         best |-> best_candidate]))
           ELSE IF LeSum(item.distance, node.inner.radius, best_candidate.distance)
                THEN calls' = went(<<Enter(node.inner.near)>> \o rest, best_candidate, None)
                ELSE calls' = went(rest, best_candidate,
                                   Some([side |-> "near", node |-> node,
                                         distance |-> item.distance,
                                         best |-> best_candidate]))
    /\ UNCHANGED <<palette, popularity, target_x86_64, cpu_avx2_fma, nearest, found, metric, pending,
                 cows, freed, created>>

\* the walk is over: the pair (best_candidate.idx, best_candidate.distance_squared)
Finish(c) ==
    /\ calls[c].pc = "walk"
    /\ calls[c].stack = <<>>
    /\ LET best_candidate == calls[accumulator_of(c)].best_candidate
       IN  calls' = [calls EXCEPT ![c].pc = "done", ![c].skipped = None,
                                  ![c].result = Some(<<best_candidate.idx,
                                                       best_candidate.distance_squared>>)]
    /\ UNCHANGED <<palette, popularity, target_x86_64, cpu_avx2_fma, nearest, found, metric, pending,
                 cows, freed, created>>

\* the caller has the pair; the call and its accumulator are gone
Return(c) ==
    /\ calls[c].pc = "done"
    /\ calls' = [calls EXCEPT ![c] = [IdleCall EXCEPT !.best_candidate =
                     IF accumulator_of(c) = c THEN IdleCall.best_candidate
                     ELSE calls[c].best_candidate]]
    /\ UNCHANGED <<palette, popularity, target_x86_64, cpu_avx2_fma, nearest, found, metric, pending,
                 cows, freed, created>>

NextWalk == \E c \in Calls : Begin(c) \/ Step(c) \/ Finish(c) \/ Return(c)

SpecWalk == InitWalk /\ [][NextWalk]_vars

(* The build taken one call of vp_create_node at a time, followed by the   *)
(* step-by-step searches on the index it built.  The build keeps the       *)
(* slices its calls are still to be made on; a call takes one slice and    *)
(* leaves the slices it recurses on.                                       *)

\* what is left of a slice after the body of vp_create_node, up to the sort
sorted_rest(indexes, pal, pop, route) ==
    LET most_popular_item ==
            max_by_key([k \in 1..Len(indexes) |-> GetOr(pop, indexes[k], 0)])
        swapped == swap(indexes, most_popular_item, 1)
        rest == Tail(swapped)
        vantage_point == GetOr(pal, swapped[1], f_pixel_default)
    IN  sort_by_cached_key(rest,
            [k \in 1..Len(rest) |->
                IF rest[k] < Len(pal)
                THEN walk_diff(route, vantage_point, pal[rest[k] + 1])
                ELSE 0])

\* mutant: the far call is made on the whole slice
recursive_calls_far_is_whole(indexes, pal, pop, route) ==
    IF Len(indexes) <= 1
    THEN <<>>
    ELSE LET sorted == sorted_rest(indexes, pal, pop, route)
             num_indexes == Len(sorted)
             half_index == num_indexes \div 2
         IN  IF num_indexes <= LEAF_MAX_SIZE
             THEN <<>>
             ELSE <<SubSeq(sorted, 1, half_index), indexes>>

\* the slices one call of vp_create_node recurses on: none for a slice of at
\* most one entry or a remainder that fits a Leaf, else near and far
recursive_calls(indexes, pal, pop, route) ==
    IF Len(indexes) <= 1
    THEN <<>>
    ELSE LET sorted == sorted_rest(indexes, pal, pop, route)
             num_indexes == Len(sorted)
             half_index == num_indexes \div 2
         IN  IF num_indexes <= LEAF_MAX_SIZE
             THEN <<>>
             ELSE <<SubSeq(sorted, 1, half_index),
                    SubSeq(sorted, half_index + 1, num_indexes)>>

\* the palettes of this specification
TerminationPalLens == {1, 2, MaxPalLen - 1, MaxPalLen, 2 * MaxPalLen}
\* a thread that waits for the index to be built
WaitingCall == [IdleCall EXCEPT !.pc = "waiting"]

InitTermination ==
    /\ \E n \in TerminationPalLens :
          /\ palette = GenPalette(n, 0, 7)
          /\ popularity = GenPopularity(n, 1)
    /\ target_x86_64 \in BOOLEAN
    /\ cpu_avx2_fma \in BOOLEAN
    /\ cpu_avx2_fma => target_x86_64
    /\ nearest = NotBuilt
    /\ found = None
    /\ metric = None
    /\ calls = [c \in Calls |-> WaitingCall]
    /\ pending = [route |-> new_route,
                  slices |-> <<[i \in 1..Len(palette) |-> (i - 1) % (PalIndexMAX + 1)]>>,
                  made |-> 0]
    /\ cows = <<>>
    /\ freed = <<>>
    /\ created = 0

\* one call of vp_create_node, on the slice on top
CreateNode ==
    /\ nearest = NotBuilt
    /\ pending.slices # <<>>
    /\ pending' = [pending EXCEPT
                     !.slices = recursive_calls(Head(pending.slices), palette,
                                                popularity, pending.route)
                                \o Tail(pending.slices),
                     !.made = pending.made + 1]
    /\ UNCHANGED <<palette, popularity, target_x86_64, cpu_avx2_fma, nearest, found,
                   metric, calls,
                 cows, freed, created>>

\* the last call has returned: Nearest::new hands out the index
NewReturns ==
    /\ nearest = NotBuilt
    /\ pending.slices = <<>>
    /\ nearest' = new(palette, popularity)
    /\ calls' = [c \in Calls |-> IdleCall]
    /\ UNCHANGED <<palette, popularity, target_x86_64, cpu_avx2_fma, found, metric,
                   pending,
                 cows, freed, created>>

NextTermination == CreateNode \/ NewReturns \/ NextWalk

SpecTermination == InitTermination /\ [][NextTermination]_vars

-----------------------------------------------------------------------------
(* seacow.rs: SeaCow, a slice that is borrowed, boxed, or owned through a  *)
(* pointer with the C function that frees it (feature _internal_c_ffi)     *)

\* the places (variables, fields) that can hold a SeaCow value
MaxCows == 3
\* the buffers of the caller: what borrowed() borrows and c_owned() is given
MaxBufs == 2
\* the values made in one run
MaxCreated == 4

Places == 1..MaxCows
Bufs == 1..MaxBufs
FreeFns == {"free"}

\* SeaCowInner
Owned(ptr, len, free_fn) == [tag |-> "Owned", ptr |-> ptr, len |-> len, free_fn |-> free_fn]
Borrowed(data) == [tag |-> "Borrowed", ptr |-> data, len |-> 1, free_fn |-> "none"]
Boxed(data) == [tag |-> "Boxed", ptr |-> data, len |-> 1, free_fn |-> "none"]
\* a place that holds no value (never initialised, moved out of, or dropped)
NoCow == [tag |-> "NoCow", ptr |-> 0, len |-> 0, free_fn |-> "none"]

\* the address of a fresh allocation of the Rust heap, apart from the
\* caller's buffers
box_alloc == MaxBufs + created + 1

InitSeaCow ==
    /\ palette = <<>>
    /\ popularity = <<>>
    /\ target_x86_64 = FALSE
    /\ cpu_avx2_fma = FALSE
    /\ nearest = NotBuilt
    /\ found = None
    /\ metric = None
    /\ calls = <<>>
    /\ pending = None
    /\ cows = [p \in Places |-> NoCow]
    /\ freed = [b \in Bufs |-> 0]
    /\ created = 0

\* SeaCow::borrowed(data), of a buffer of the caller that is still allocated
\* and that the caller has not handed over to an owning value
borrowed(p) ==
    /\ cows[p] = NoCow
    /\ created < MaxCreated
    /\ \E data \in Bufs :
          /\ freed[data] = 0
          /\ \A q \in Places : cows[q].tag = "Owned" => cows[q].ptr # data
          /\ cows' = [cows EXCEPT ![p] = Borrowed(data)]
    /\ created' = created + 1
    /\ UNCHANGED <<palette, popularity, target_x86_64, cpu_avx2_fma, nearest, found,
                   metric, calls, pending, freed>>

\* SeaCow::boxed(data), of a box of its own
boxed(p) ==
    /\ cows[p] = NoCow
    /\ created < MaxCreated
    /\ cows' = [cows EXCEPT ![p] = Boxed(box_alloc)]
    /\ created' = created + 1
    /\ UNCHANGED <<palette, popularity, target_x86_64, cpu_avx2_fma, nearest, found,
                   metric, calls, pending, freed>>

\* unsafe SeaCow::c_owned(ptr, len, free_fn): the caller hands over a buffer
\* that is allocated and that no value alive refers to
c_owned(p) ==
    /\ cows[p] = NoCow
    /\ created < MaxCreated
    /\ \E ptr \in Bufs, free_fn \in FreeFns :
          /\ freed[ptr] = 0
          /\ \A q \in Places : cows[q].ptr # ptr
          /\ cows' = [cows EXCEPT ![p] = Owned(ptr, 1, free_fn)]
    /\ created' = created + 1
    /\ UNCHANGED <<palette, popularity, target_x86_64, cpu_avx2_fma, nearest, found,
                   metric, calls, pending, freed>>

\* SeaCow::make_owned(&mut self, free_fn)
make_owned(p) ==
    /\ cows[p] # NoCow
    /\ \E free_fn \in FreeFns :
          cows' = [cows EXCEPT ![p] =
                      IF cows[p].tag = "Borrowed"
                      THEN Owned(cows[p].ptr, cows[p].len, free_fn)
                      ELSE cows[p]]
    /\ UNCHANGED <<palette, popularity, target_x86_64, cpu_avx2_fma, nearest, found,
                   metric, calls, pending, freed, created>>

\* SeaCowInner::clone(&self), the clone put in the place q
clone(p, q) ==
    /\ cows[p] # NoCow
    /\ cows[q] = NoCow
    /\ created < MaxCreated
    /\ cows' = [cows EXCEPT ![q] =
                    IF cows[p].tag = "Borrowed"
                    THEN Borrowed(cows[p].ptr)
                    ELSE Boxed(box_alloc)]
    /\ created' = created + 1
    /\ UNCHANGED <<palette, popularity, target_x86_64, cpu_avx2_fma, nearest, found,
                   metric, calls, pending, freed>>

\* SeaCowInner::drop(&mut self): an Owned value calls its free_fn on its
\* pointer; a box is released by Box, a borrow releases nothing
drop(p) ==
    /\ cows[p] # NoCow
    /\ freed' = IF cows[p].tag = "Owned"
                THEN [freed EXCEPT ![cows[p].ptr] = @ + 1]
                ELSE freed
    /\ cows' = [cows EXCEPT ![p] = NoCow]
    /\ UNCHANGED <<palette, popularity, target_x86_64, cpu_avx2_fma, nearest, found,
                   metric, calls, pending, created>>

NextSeaCow ==
    \E p \in Places :
        \/ borrowed(p)
        \/ boxed(p)
        \/ c_owned(p)
        \/ make_owned(p)
        \/ \E q \in Places : clone(p, q)
        \/ drop(p)

SpecSeaCow == InitSeaCow /\ [][NextSeaCow]_vars

-----------------------------------------------------------------------------
(* Reference definitions the claims are stated with                        *)

\* the least squared distance between the colour q and any entry of pal
MinDist(pal, q) ==
    CHOOSE m \in {diff_scalar(q, pal[j]) : j \in 1..Len(pal)} :
        \A j \in 1..Len(pal) : m <= diff_scalar(q, pal[j])

\* the least squared distance between entry i (0-based) and any other entry
MinOtherDist(pal, i) ==
    CHOOSE m \in {diff_scalar(pal[i + 1], pal[j]) : j \in (1..Len(pal)) \ {i + 1}} :
        \A j \in (1..Len(pal)) \ {i + 1} : m <= diff_scalar(pal[i + 1], pal[j])

Built == nearest.tag = "Ok"
Searched == found # None
\* the fast path of the search recorded in found fired
FastPathFired ==
    /\ Searched
    /\ found[1].likely < Len(palette)
    /\ diff_scalar(found[1].px, palette[found[1].likely + 1])
          < nearest.nearest_other_color_dist[found[1].likely + 1]

-----------------------------------------------------------------------------
(* The claims                                                              *)

\* C1: on every built index, for every query colour and hint, search returns
\* the least squared distance over all palette entries, and the index it
\* returns is an entry at that distance.
C1_SearchIsBruteForceMin ==
    Searched =>
        /\ found[1].distance_squared = MinDist(palette, found[1].px)
        /\ found[1].idx < Len(palette)
        /\ diff_scalar(found[1].px, palette[found[1].idx + 1]) = found[1].distance_squared

\* a tree walk through an internal node that ended on an entry other than the hint
C1_Witness ==
    /\ Searched
    /\ nearest.root.inner.tag = "Nodes"
    /\ found[1].likely < Len(palette)
    /\ ~FastPathFired
    /\ found[1].idx # found[1].likely
    /\ found[1].distance_squared > 0

\* C2: when the hint L is valid and the direct squared distance to palette[L]
\* is below the cached quartered nearest-other distance of L, search returns
\* (L, that distance), and no entry is strictly closer to the query.
C2_FastPathSound ==
    FastPathFired =>
        LET f == found[1]
            guess_diff == diff_scalar(f.px, palette[f.likely + 1])
        IN  /\ f.idx = f.likely
            /\ f.distance_squared = guess_diff
            /\ guess_diff = MinDist(palette, f.px)
            /\ \A j \in 1..Len(palette) : diff_scalar(f.px, palette[j]) >= guess_diff

\* the fast path fired for a query that is not the palette entry itself,
\* on a palette with other entries
C2_Witness ==
    /\ FastPathFired
    /\ Len(palette) >= 2
    /\ found[1].distance_squared > 0

\* C3: building fails with Unsupported on an empty palette and on one longer
\* than MAX_COLORS, and succeeds on every palette of 1..MAX_COLORS entries.
C3_BuildOutcome ==
    nearest # NotBuilt =>
        IF Len(palette) = 0 \/ Len(palette) > MAX_COLORS
        THEN nearest = Err("Unsupported")
        ELSE nearest.tag = "Ok"

\* a palette of exactly MAX_COLORS entries was built
C3_Witness ==
    /\ Len(palette) = MAX_COLORS
    /\ nearest.tag = "Ok"

\* C4: after a successful build of a palette of two or more entries, the
\* cached value of every index i is a quarter of the least squared distance
\* between entry i and the entries at the other indices.
C4_NearestOtherCache ==
    (Built /\ ~Searched /\ Len(palette) >= 2) =>
        \A i \in 0..(Len(palette) - 1) :
            4 * nearest.nearest_other_color_dist[i + 1] = MinOtherDist(palette, i)

\* a tree with an internal node, and an entry whose nearest other entry is
\* at a positive distance
C4_Witness ==
    /\ Built
    /\ ~Searched
    /\ nearest.root.inner.tag = "Nodes"
    /\ \E i \in 1..Len(palette) : nearest.nearest_other_color_dist[i] > 0

\* C5: a palette of one entry builds, and every query with every hint, valid
\* or not, returns index 0 with the direct squared distance to that entry.
C5_SingleEntry ==
    Len(palette) = 1 =>
        /\ nearest # NotBuilt => Built
        /\ Searched =>
              /\ found[1].idx = 0
              /\ found[1].distance_squared = diff_scalar(found[1].px, palette[1])

\* a query away from the single entry, with a hint that is no palette index
C5_Witness ==
    /\ Len(palette) = 1
    /\ Searched
    /\ found[1].likely >= 1
    /\ found[1].distance_squared > 0

\* C6: search returns an index below the palette length and a finite squared
\* distance, for every query and every hint, valid or not.
C6_SearchTotal ==
    Searched =>
        /\ found[1].idx \in 0..(Len(palette) - 1)
        /\ found[1].distance_squared \in 0..(INFINITY - 1)

\* a search with the hint PalIndexMAX on a palette it does not index
C6_Witness ==
    /\ Searched
    /\ found[1].likely = PalIndexMAX
    /\ Len(palette) <= PalIndexMAX
    /\ nearest.root.inner.tag = "Nodes"

\* C7: for one palette, the index built and searched on the scalar path and
\* the index built and searched on the vector path return the same
\* (index, squared distance) pair for every query and hint.
C7_ScalarVectorSameResult ==
    /\ (Built /\ ~Searched) =>
          LET s == new_scalar(palette, popularity)
              v == new_simd(palette, popularity)
          IN  /\ s.tag = "Ok" /\ v.tag = "Ok"
              /\ s.root = v.root
              /\ s.nearest_other_color_dist = v.nearest_other_color_dist
              /\ nearest.root = s.root
              /\ nearest.nearest_other_color_dist = s.nearest_other_color_dist
    /\ Searched =>
          LET f == found[1]
          IN  /\ search_scalar(nearest, palette, f.px, f.likely) = <<f.idx, f.distance_squared>>
              /\ search_simd_inner(nearest, palette, f.px, f.likely) = <<f.idx, f.distance_squared>>

\* a vector-path tree walk through an internal node, colours differing in alpha
C7_Witness ==
    /\ Searched
    /\ nearest.has_simd
    /\ summon_token
    /\ nearest.root.inner.tag = "Nodes"
    /\ ~FastPathFired
    /\ found[1].px.a # palette[found[1].idx + 1].a
    /\ found[1].distance_squared > 0

\* C8: with a token available, diff_simd and diff differ from diff_scalar by
\* less than 1e-5; without one, diff is diff_scalar.  (4 stands for 1.0, so a
\* squared distance x stands for x / 16.)
C8_VectorMatchesScalar ==
    metric.out # None =>
        LET o == metric.out[1]
        IN  /\ Abs(o.dispatch - o.scalar) * 100000 < 16
            /\ o.simd # None => Abs(o.simd[1] - o.scalar) * 100000 < 16

\* the vector metric applied, under a token, to colours that differ in alpha
\* and in a colour channel
C8_Witness ==
    /\ metric.out # None
    /\ summon_token
    /\ metric.out[1].simd # None
    /\ metric.a.a # metric.b.a
    /\ metric.a.b # metric.b.b
    /\ metric.out[1].scalar > 0

\* C9: the metric is the sum, over the channels r, g, b, of the larger of
\* (a.c - b.c)^2 and (a.c - b.c + (b.a - a.a))^2; alpha has no term of its own,
\* and the vector form leaves its alpha lane out of the sum.
ChannelTerm(x, y, alpha_shift) ==
    Max((x - y) * (x - y), (x - y + alpha_shift) * (x - y + alpha_shift))
MetricFormula(a, b) ==
    ChannelTerm(a.r, b.r, b.a - a.a) + ChannelTerm(a.g, b.g, b.a - a.a)
    + ChannelTerm(a.b, b.b, b.a - a.a)
C9_MetricFormula ==
    metric.out # None =>
        LET o == metric.out[1]
        IN  /\ o.scalar = MetricFormula(metric.a, metric.b)
            /\ o.dispatch = MetricFormula(metric.a, metric.b)
            /\ o.simd # None => o.simd[1] = MetricFormula(metric.a, metric.b)
            /\ (metric.a.r = metric.b.r /\ metric.a.g = metric.b.g /\ metric.a.b = metric.b.b)
                  => o.scalar = 3 * (metric.b.a - metric.a.a) * (metric.b.a - metric.a.a)

\* colours equal in r, g, b and different in alpha, measured by all three forms
C9_Witness ==
    /\ metric.out # None
    /\ metric.out[1].simd # None
    /\ metric.a.a # metric.b.a
    /\ metric.a.r = metric.b.r /\ metric.a.g = metric.b.g /\ metric.a.b = metric.b.b

\* C10: the metric is non-negative and symmetric in its two colours, in the
\* scalar, the vector and the dispatching form.
C10_NonNegativeSymmetric ==
    metric.out # None =>
        LET o == metric.out[1]
        IN  /\ o.scalar >= 0
            /\ o.dispatch >= 0
            /\ o.scalar = diff_scalar(metric.b, metric.a)
            /\ o.dispatch = diff(metric.b, metric.a)
            /\ o.simd # None => o.simd[1] = diff_simd(metric.b, metric.a)

\* two colours whose black and white differences have opposite signs
C10_Witness ==
    /\ metric.out # None
    /\ metric.a.r > metric.b.r
    /\ metric.a.r - metric.b.r + (metric.b.a - metric.a.a) < 0
    /\ metric.out[1].scalar > 0

-----------------------------------------------------------------------------
(* The built tree, read back: the claims about its shape                   *)

\* the palette indexes held in the subtree of node: its vantage first, then
\* its leaf list or its near and far subtrees
RECURSIVE TreeIdxs(_)
TreeIdxs(node) ==
    <<node.idx>> \o
    IF node.inner.tag = "Leaf"
    THEN [k \in 1..node.inner.len |->
             IF k <= Len(node.inner.idxs) THEN node.inner.idxs[k] ELSE 0] \o <<>>
    ELSE TreeIdxs(node.inner.near) \o TreeIdxs(node.inner.far)

\* every node of the subtree of node
RECURSIVE TreeNodes(_)
TreeNodes(node) ==
    {node} \cup
    IF node.inner.tag = "Leaf"
    THEN {}
    ELSE TreeNodes(node.inner.near) \cup TreeNodes(node.inner.far)

Range(s) == {s[k] : k \in 1..Len(s)}
FreshlyBuilt == Built /\ ~Searched
\* squared distance between the vantage of node n and palette entry i
VantageDist(n, i) == diff_scalar(n.vantage_point, palette[i + 1])

\* C12: in a built tree of an N-entry palette every index 0..N-1 is held
\* exactly once among the vantage slots and the leaf lists.
C12_EveryIndexOnce ==
    FreshlyBuilt =>
        LET held == TreeIdxs(nearest.root)
        IN  /\ Len(held) = Len(palette)
            /\ \A i \in 0..(Len(palette) - 1) :
                  Cardinality({k \in 1..Len(held) : held[k] = i}) = 1

\* a tree with an internal node whose children hold lists of their own
C12_Witness ==
    /\ FreshlyBuilt
    /\ nearest.root.inner.tag = "Nodes"
    /\ nearest.root.inner.near.inner.len > 0
    /\ nearest.root.inner.far.inner.len > 0

\* C13 as claimed: the radius is the distance from the vantage to the first
\* (nearest) entry of the far part, every near entry is strictly inside the
\* radius and every far entry is not.
C13_NearStrictlyInside ==
    FreshlyBuilt =>
        \A n \in TreeNodes(nearest.root) :
            n.inner.tag = "Nodes" =>
                /\ n.inner.radius = Sqrt(n.inner.radius_squared)
                /\ \E i \in Range(TreeIdxs(n.inner.far)) :
                      VantageDist(n, i) = n.inner.radius_squared
                /\ \A i \in Range(TreeIdxs(n.inner.far)) :
                      VantageDist(n, i) >= n.inner.radius_squared
                /\ \A i \in Range(TreeIdxs(n.inner.near)) :
                      VantageDist(n, i) < n.inner.radius_squared

\* C13, amended: the radius is the distance from the vantage to the nearest
\* entry of the far part, no near entry is outside the radius and no far
\* entry is inside it; an entry at the radius may be in either part.
C13_NearNotOutside ==
    FreshlyBuilt =>
        \A n \in TreeNodes(nearest.root) :
            n.inner.tag = "Nodes" =>
                /\ n.inner.radius = Sqrt(n.inner.radius_squared)
                /\ \E i \in Range(TreeIdxs(n.inner.far)) :
                      VantageDist(n, i) = n.inner.radius_squared
                /\ \A i \in Range(TreeIdxs(n.inner.far)) :
                      VantageDist(n, i) >= n.inner.radius_squared
                /\ \A i \in Range(TreeIdxs(n.inner.near)) :
                      VantageDist(n, i) <= n.inner.radius_squared

\* an internal node with a near entry strictly inside the radius and a far
\* entry strictly outside it
C13_Witness ==
    /\ FreshlyBuilt
    /\ nearest.root.inner.tag = "Nodes"
    /\ \E i \in Range(TreeIdxs(nearest.root.inner.near)) :
          VantageDist(nearest.root, i) < nearest.root.inner.radius_squared
    /\ \E i \in Range(TreeIdxs(nearest.root.inner.far)) :
          VantageDist(nearest.root, i) > nearest.root.inner.radius_squared

\* C14: every Leaf of a built tree holds at most LEAF_MAX_SIZE entries.
C14_LeafCapacity ==
    FreshlyBuilt =>
        \A n \in TreeNodes(nearest.root) :
            n.inner.tag = "Leaf" =>
                /\ n.inner.len <= LEAF_MAX_SIZE
                /\ n.inner.len <= Len(n.inner.idxs)
                /\ n.inner.len <= Len(n.inner.colors)

\* a full Leaf under an internal node
C14_Witness ==
    /\ FreshlyBuilt
    /\ \E n \in TreeNodes(nearest.root) :
          /\ n.inner.tag = "Leaf"
          /\ n.inner.len = LEAF_MAX_SIZE
          /\ n # nearest.root

\* C19: at every node built from a slice of two or more entries the vantage
\* has the highest popularity of the slice, and it is not among the entries
\* handed to the leaf list or to the children.
C19_VantageMostPopular ==
    FreshlyBuilt =>
        \A n \in TreeNodes(nearest.root) :
            LET slice == TreeIdxs(n)
            IN  Len(slice) >= 2 =>
                    /\ \A k \in 1..Len(slice) :
                          popularity[slice[k] + 1] <= popularity[n.idx + 1]
                    /\ n.vantage_point = palette[n.idx + 1]
                    /\ \A k \in 2..Len(slice) : slice[k] # n.idx

\* a tree whose root vantage was moved to the front of the slice because it
\* outweighs the entry that was first
C19_Witness ==
    /\ FreshlyBuilt
    /\ nearest.root.inner.tag = "Nodes"
    /\ nearest.root.idx # 0
    /\ popularity[nearest.root.idx + 1] > popularity[1]

\* C20: a node whose slice leaves at most LEAF_MAX_SIZE entries after the
\* vantage is a Leaf holding exactly them; a larger remainder of n entries is
\* split into a near part of n div 2 entries and a far part of the rest, both
\* non-empty, and no near entry is farther from the vantage than a far entry.
C20_LeafOrMidpointSplit ==
    FreshlyBuilt =>
        /\ Range(TreeIdxs(nearest.root)) = 0..(Len(palette) - 1)
        /\ \A n \in TreeNodes(nearest.root) :
              LET num_indexes == Len(TreeIdxs(n)) - 1
              IN  IF num_indexes <= LEAF_MAX_SIZE
                  THEN /\ n.inner.tag = "Leaf"
                       /\ n.inner.len = num_indexes
                       /\ \A k \in 1..n.inner.len :
                             n.inner.colors[k] = palette[n.inner.idxs[k] + 1]
                  ELSE LET near == TreeIdxs(n.inner.near)
                           far == TreeIdxs(n.inner.far)
                       IN  /\ n.inner.tag = "Nodes"
                           /\ Len(near) = num_indexes \div 2
                           /\ Len(far) = num_indexes - (num_indexes \div 2)
                           /\ Len(near) >= 1
                           /\ Len(far) >= 1
                           /\ \A i \in Range(near), j \in Range(far) :
                                 VantageDist(n, i) <= VantageDist(n, j)

\* a split of an odd remainder, whose far part is the larger one, over
\* entries at different distances from the vantage
C20_Witness ==
    /\ FreshlyBuilt
    /\ nearest.root.inner.tag = "Nodes"
    /\ Len(TreeIdxs(nearest.root.inner.far)) > Len(TreeIdxs(nearest.root.inner.near))
    /\ \E i \in Range(TreeIdxs(nearest.root.inner.near)),
          j \in Range(TreeIdxs(nearest.root.inner.far)) :
          VantageDist(nearest.root, i) < VantageDist(nearest.root, j)

\* the accumulator left by the warm-up walk of the build for entry i: the
\* walk from the entry's own colour with the entry excluded
warm_up_walk(self, pal, i) ==
    IF self.has_simd
    THEN vp_search_node_simd(self.root, pal[i + 1],
             Visitor(Lit(F32_MAX), F32_MAX, 0, Some(i % (PalIndexMAX + 1))))
    ELSE vp_search_node_scalar(self.root, pal[i + 1],
             Visitor(Lit(F32_MAX), F32_MAX, 0, Some(i % (PalIndexMAX + 1))))

\* C17: a visit of the excluded index never replaces the best match, however
\* close the candidate is, and so the warm-up walk for entry i of a palette
\* of two or more entries ends on an index other than i.
C17_ExcludedNeverWins ==
    FreshlyBuilt /\ Len(palette) >= 2 =>
        \A i \in 0..(Len(palette) - 1) :
            /\ \A distance_squared \in {0, 1, F32_MAX - 1} :
                  LET self == Visitor(Lit(F32_MAX), F32_MAX, 0, Some(i))
                  IN  visit(self, Sqrt(distance_squared), distance_squared, i) = self
            /\ warm_up_walk(nearest, palette, i).idx # i
            /\ warm_up_walk(nearest, palette, i).exclude = Some(i)

\* the walk for entry 0, whose accumulator starts on the excluded index 0,
\* and the walk for an entry that has a duplicate at distance nought
C17_Witness ==
    /\ FreshlyBuilt
    /\ Len(palette) >= 2
    /\ warm_up_walk(nearest, palette, 0).idx # 0
    /\ \E i \in 1..(Len(palette) - 1) :
          /\ warm_up_walk(nearest, palette, i).distance_squared = 0
          /\ warm_up_walk(nearest, palette, i).idx # i

\* C18: a candidate at exactly the squared distance of the best match does
\* not replace it, and a search whose hint entry enters the tree walk at the
\* least distance of the palette returns the hint index.
C18_TiesKeepFirst ==
    Searched /\ found[1].likely < Len(palette) /\ ~FastPathFired =>
        LET guess_diff == diff_scalar(found[1].px, palette[found[1].likely + 1])
            self == Visitor(Sqrt(guess_diff), guess_diff, found[1].likely, None)
        IN  /\ \A idx \in 0..(Len(palette) - 1) :
                  visit(self, Sqrt(guess_diff), guess_diff, idx) = self
            /\ guess_diff = MinDist(palette, found[1].px) =>
                  found[1].idx = found[1].likely

\* a search whose hint entry ties with another entry at the least distance,
\* the other entry having the lower index
C18_Witness ==
    /\ Searched
    /\ found[1].likely < Len(palette)
    /\ ~FastPathFired
    /\ found[1].idx = found[1].likely
    /\ \E j \in 0..(Len(palette) - 1) :
          /\ j < found[1].likely
          /\ diff_scalar(found[1].px, palette[j + 1])
                = diff_scalar(found[1].px, palette[found[1].likely + 1])
          /\ diff_scalar(found[1].px, palette[j + 1]) = MinDist(palette, found[1].px)

\* C15: the vector routines run only in an operation whose own probe gave a
\* token: a build takes the vector path exactly when its probe succeeds, a
\* search takes it only when its probe succeeds on an index built on the
\* vector path, the dispatching metric only when its probe succeeds; without
\* a token (always so off x86_64) the operation is scalar, and an index built
\* on the scalar path is searched on the scalar path.
C15_VectorOnlyUnderToken ==
    [][/\ ~target_x86_64 => ~summon_token
       /\ (nearest = NotBuilt /\ nearest' # NotBuilt /\ nearest'.tag = "Ok") =>
              /\ nearest'.has_simd => summon_token
              /\ ~summon_token => ~nearest'.has_simd
       /\ (found = None /\ found' # None) =>
              /\ found'[1].route = "simd" => summon_token /\ nearest.has_simd
              /\ ~summon_token => found'[1].route = "scalar"
              /\ ~nearest.has_simd => found'[1].route = "scalar"
              /\ found'[1].route = "scalar" =>
                    <<found'[1].idx, found'[1].distance_squared>>
                       = search_scalar(nearest, palette, found'[1].px, found'[1].likely)
       /\ (metric # None /\ metric.out = None /\ metric'.out # None) =>
              /\ metric'.out[1].route = "simd" => summon_token
              /\ ~summon_token =>
                    /\ metric'.out[1].route = "scalar"
                    /\ metric'.out[1].dispatch = diff_scalar(metric.a, metric.b)
      ]_vars

\* an index built on the scalar path, searched while the probe succeeds
C15_Witness ==
    /\ Built
    /\ ~nearest.has_simd
    /\ Searched
    /\ found[1].token
    /\ found[1].route = "scalar"

\* C11: searches in progress at once on one index, interleaved in any way,
\* leave the tree, the palette and the cache as they are; a step of a call
\* changes nothing of any other call; and every call returns the pair the
\* search returns when it runs alone.
C11_ConcurrentSearches ==
    [][/\ nearest' = nearest
       /\ palette' = palette
       /\ popularity' = popularity
       /\ \A c \in Calls :
             calls'[c] # calls[c] => \A d \in Calls \ {c} : calls'[d] = calls[d]
       /\ \A c \in Calls :
             calls'[c].pc = "done" =>
                 calls'[c].result = Some(search(nearest, palette, calls'[c].px,
                                                calls'[c].likely))
      ]_vars

\* two calls with different queries, both part-way through their walks
C11_Witness ==
    /\ calls # <<>>
    /\ calls[1].pc = "walk"
    /\ calls[2].pc = "walk"
    /\ calls[1].px # calls[2].px
    /\ Len(calls[1].stack) >= 2
    /\ Len(calls[2].stack) >= 2
    /\ calls[1].best_candidate # calls[2].best_candidate

\* C16: the walk goes near first when the query is inside the radius and far
\* first otherwise; it skips the far side only if distance < radius - best and
\* the near side only if distance > radius + best, best being the best
\* distance when the first side has been walked; and no entry of a skipped
\* subtree is strictly closer to the query than the best match at that moment.
C16_SkippedSubtreeNotCloser ==
    calls # <<>> =>
        \A c \in Calls :
            /\ \A k \in 1..Len(calls[c].stack) :
                  LET item == calls[c].stack[k]
                  IN  /\ item.op = "far" =>
                            item.distance.v < item.node.inner.radius_squared
                      /\ item.op = "near" =>
                            item.distance.v >= item.node.inner.radius_squared
            /\ calls[c].skipped # None =>
                  LET skipped == calls[c].skipped[1]
                      d == skipped.distance.v
                      r == skipped.node.inner.radius_squared
                      b == skipped.best.distance_squared
                      subtree == IF skipped.side = "far"
                                 THEN skipped.node.inner.far
                                 ELSE skipped.node.inner.near
                  IN  /\ skipped.best = calls[c].best_candidate
                      /\ ~skipped.best.distance.lit
                      /\ skipped.side = "far" =>
                            d + b < r /\ 4 * d * b < (r - d - b) * (r - d - b)
                      /\ skipped.side = "near" =>
                            d > r + b /\ 4 * r * b < (d - r - b) * (d - r - b)
                      /\ \A i \in Range(TreeIdxs(subtree)) :
                            walk_diff(calls[c].route, calls[c].px, palette[i + 1]) >= b

\* a call that has just skipped a near subtree and another that has just
\* skipped a far one
C16_Witness ==
    /\ calls # <<>>
    /\ \E c \in Calls, d \in Calls :
          /\ calls[c].skipped # None
          /\ calls[c].skipped[1].side = "near"
          /\ calls[d].skipped # None
          /\ calls[d].skipped[1].side = "far"

\* sqrt x <= sqrt y + sqrt z for naturals x, y, z, decided on the squares
RootLeRootSum(x, y, z) ==
    \/ x <= y + z
    \/ (x - y - z) * (x - y - z) <= 4 * y * z

\* C22: the square root of the metric obeys the triangle inequality: for all
\* colours a, b, c, sqrt(diff(a, c)) <= sqrt(diff(a, b)) + sqrt(diff(b, c)),
\* for the scalar metric and for the dispatching one.
C22_TriangleInequality ==
    (metric # None /\ metric.out # None) =>
        LET o == metric.out[1]
        IN  /\ RootLeRootSum(o.scalar_ac, o.scalar_ab, o.scalar_bc)
            /\ RootLeRootSum(o.dispatch_ac, o.dispatch_ab, o.dispatch_bc)
            /\ o.scalar_ac >= 0 /\ o.scalar_ab >= 0 /\ o.scalar_bc >= 0

\* three different colours of different alpha, the middle one not on the
\* way: the sum of the two roots is strictly more than the third root, and
\* the squares alone would not obey the inequality
C22_Witness ==
    /\ metric # None
    /\ metric.out # None
    /\ metric.a.a # metric.b.a
    /\ metric.b.a # metric.c.a
    /\ metric.out[1].scalar_ab > 0
    /\ metric.out[1].scalar_bc > 0
    /\ metric.out[1].scalar_ac > metric.out[1].scalar_ab + metric.out[1].scalar_bc
    /\ (metric.out[1].scalar_ac - metric.out[1].scalar_ab - metric.out[1].scalar_bc)
          * (metric.out[1].scalar_ac - metric.out[1].scalar_ab - metric.out[1].scalar_bc)
          < 4 * metric.out[1].scalar_ab * metric.out[1].scalar_bc

\* the entries in all the slices a build has still to make nodes of
RECURSIVE TotalLen(_)
TotalLen(slices) ==
    IF slices = <<>> THEN 0 ELSE Len(Head(slices)) + TotalLen(Tail(slices))

\* what a walk has at most still to do: two turns for every node it may yet
\* enter, but one for a node whose second side only is left to decide
RECURSIVE WalkMeasure(_)
WalkMeasure(stack) ==
    IF stack = <<>>
    THEN 0
    ELSE LET item == Head(stack)
         IN  (IF item.op = "visit"
              THEN 2 * Cardinality(TreeNodes(item.node))
              ELSE IF item.op = "far"
              THEN 1 + 2 * Cardinality(TreeNodes(item.node.inner.far))
              ELSE 1 + 2 * Cardinality(TreeNodes(item.node.inner.near)))
             + WalkMeasure(Tail(stack))

\* C21: build and search terminate.  Every call of the build recurses only on
\* non-empty slices strictly shorter than its own, taken from it, and the
\* entries still to be placed grow fewer with every call; the build is over
\* after one call per node.  Every turn of a search either ends the walk of a
\* node or moves to a child of the node it is at, and what the walk has still
\* to do shrinks with every turn.
C21_BuildAndSearchTerminate ==
    [][/\ (pending # None /\ pending' # pending) =>
              LET slice == Head(pending.slices)
                  made == Len(pending'.slices) - Len(Tail(pending.slices))
              IN  /\ pending'.made = pending.made + 1
                  /\ TotalLen(pending'.slices) < TotalLen(pending.slices)
                  /\ \A k \in 1..made :
                        /\ Len(pending'.slices[k]) >= 1
                        /\ Len(pending'.slices[k]) < Len(slice)
                        /\ Range(pending'.slices[k]) \subseteq Range(slice)
       /\ (pending # None /\ nearest = NotBuilt /\ nearest' # NotBuilt) =>
              /\ nearest'.tag = "Ok"
              /\ pending.made = Cardinality(TreeNodes(nearest'.root))
              /\ pending.made <= Len(palette)
       /\ (pending # None /\ nearest # NotBuilt) =>
              \A c \in Calls :
                  (calls[c].pc = "walk" /\ calls'[c] # calls[c]) =>
                      \/ /\ calls[c].stack = <<>>
                         /\ calls'[c].pc = "done"
                      \/ /\ calls[c].stack # <<>>
                         /\ calls'[c].pc = "walk"
                         /\ WalkMeasure(calls'[c].stack) < WalkMeasure(calls[c].stack)
                         /\ Len(calls'[c].stack) >= Len(calls[c].stack) =>
                               /\ Head(calls[c].stack).node.inner.tag = "Nodes"
                               /\ Head(calls'[c].stack).op = "visit"
                               /\ Head(calls'[c].stack).node \in
                                     {Head(calls[c].stack).node.inner.near,
                                      Head(calls[c].stack).node.inner.far}
      ]_vars

\* a build of several calls is over and a search has walked the tree it made
\* to its end
C21_Witness ==
    /\ pending # None
    /\ pending.made >= 3
    /\ pending.slices = <<>>
    /\ Built
    /\ \E c \in Calls :
          /\ calls[c].pc = "done"
          /\ calls[c].best_candidate.distance_squared = calls[c].result[1][2]

\* C23: on one built index, two searches for the same colour return the same
\* squared distance whatever their hints are, and each returns the index of
\* an entry at exactly that distance.
C23_HintIndependent ==
    calls # <<>> =>
        \A c \in Calls, d \in Calls :
            (calls[c].pc = "done" /\ calls[d].pc = "done" /\ calls[c].px = calls[d].px) =>
                LET rc == calls[c].result[1]
                    rd == calls[d].result[1]
                IN  /\ rc[2] = rd[2]
                    /\ rc[1] < Len(palette)
                    /\ rd[1] < Len(palette)
                    /\ diff_scalar(calls[c].px, palette[rc[1] + 1]) = rc[2]
                    /\ diff_scalar(calls[d].px, palette[rd[1] + 1]) = rc[2]

\* two finished searches for one colour that has two nearest entries, the
\* hints different and the indexes returned different
C23_Witness ==
    /\ calls # <<>>
    /\ calls[1].pc = "done"
    /\ calls[2].pc = "done"
    /\ calls[1].px = calls[2].px
    /\ calls[1].likely # calls[2].likely
    /\ calls[1].result[1][1] # calls[2].result[1][1]

\* C24: across every sequence of borrowed, boxed, c_owned, clone, make_owned
\* and drop, the free function is called at most once on any buffer and only
\* by the drop of a value that owns it, and after every operation, a clone
\* included, no two values alive own the same pointer.
C24_FreedAtMostOnce ==
    cows # <<>> =>
        /\ \A b \in Bufs : freed[b] <= 1
        /\ \A p \in Places, q \in Places :
              (p # q /\ cows[p].tag \in {"Owned", "Boxed"}
                     /\ cows[q].tag \in {"Owned", "Boxed"}) =>
                  cows[p].ptr # cows[q].ptr

=============================================================================
